---- MODULE Spec2Model ----
(***************************************************************************)
(* The typed option store of crowbook (src/lib/bookoption.rs):             *)
(* the compiled-in OPTIONS schema, BookOptions::new, set, the accessors    *)
(* and description.                                                        *)
(*                                                                         *)
(* Text (&str, String, PathBuf) is a sequence of one-character strings,    *)
(* so that trim, split, parse and join are computed and not assumed.       *)
(* Option<T> is a sequence of length 0 (None) or 1 (Some(x)).              *)
(***************************************************************************)
EXTENDS Integers, Sequences, FiniteSets, TLC

\* Number of mutating calls (set, or an assignment of root) in one run.
MaxWrites == 2

---------------------------------------------------------------------------
(* Text primitives of the Rust standard library, as the code uses them.    *)

None == <<>>

Some(x) == <<x>>

\* A character outside ASCII is written by its code point: "U+202F" is the one
\* character NARROW NO-BREAK SPACE (the default of nb_char).
\* char::is_whitespace, on the characters the model uses
IsWhitespace(c) == c \in {" ", "\t", "\n", "\r", "U+202F"}

\* str::trim: leading and trailing whitespace removed
Trim(s) ==
  LET keep == {i \in 1..Len(s) : ~IsWhitespace(s[i])}
  IN  IF keep = {} THEN <<>>
      ELSE LET lo == CHOOSE i \in keep : \A j \in keep : i <= j
               hi == CHOOSE i \in keep : \A j \in keep : j <= i
           IN  SubSeq(s, lo, hi)

\* str::split(char), collected: n occurrences of sep give n+1 words
Split(s, sep) ==
  LET at == {i \in 1..Len(s) : s[i] = sep}
      n  == Cardinality(at)
      \* position of the k-th separator; 0 before the first, Len(s)+1 after the last
      pos(k) == IF k = 0 THEN 0
                ELSE IF k = n + 1 THEN Len(s) + 1
                ELSE CHOOSE i \in at : Cardinality({j \in at : j < i}) = k - 1
  IN  [k \in 1..(n + 1) |-> SubSeq(s, pos(k - 1) + 1, pos(k) - 1)]

\* str::starts_with(char)
StartsWith(s, c) == Len(s) > 0 /\ s[1] = c

\* slice::contains
Contains(v, x) == \E i \in 1..Len(v) : v[i] = x

---------------------------------------------------------------------------
(* The schema text, line by line (str::lines of the OPTIONS literal: the   *)
(* literal opens with a line break, so the first line is empty).           *)

OPTIONS ==
  << <<>>,
     <<"#"," ","M","e","t","a","d","a","t","a">>,
     <<"a","u","t","h","o","r",":","s","t","r",":","A","n","o","n","y","m","o","u","s"," "," "," "," "," "," "," "," "," "," "," "," "," "," "," "," ","#"," ","T","h","e"," ","a","u","t","h","o","r"," ","o","f"," ","t","h","e"," ","b","o","o","k">>,
     <<"t","i","t","l","e",":","s","t","r",":","U","n","t","i","t","l","e","d"," "," "," "," "," "," "," "," "," "," "," "," "," "," "," "," "," "," ","#"," ","T","h","e"," ","t","i","t","l","e"," ","o","f"," ","t","h","e"," ","b","o","o","k">>,
     <<"l","a","n","g",":","s","t","r",":","e","n"," "," "," "," "," "," "," "," "," "," "," "," "," "," "," "," "," "," "," "," "," "," "," "," "," ","#"," ","T","h","e"," ","l","a","n","g","u","a","g","e"," ","o","f"," ","t","h","e"," ","b","o","o","k">>,
     <<"s","u","b","j","e","c","t",":","s","t","r"," "," "," "," "," "," "," "," "," "," "," "," "," "," "," "," "," "," "," "," "," "," "," "," "," ","#"," ","S","u","b","j","e","c","t"," ","o","f"," ","t","h","e"," ","b","o","o","k"," ","(","u","s","e","d"," ","f","o","r"," ","E","P","U","B"," ","m","e","t","a","d","a","t","a",")">>,
     <<"d","e","s","c","r","i","p","t","i","o","n",":","s","t","r"," "," "," "," "," "," "," "," "," "," "," "," "," "," "," "," "," "," "," "," "," ","#"," ","D","e","s","c","r","i","p","t","i","o","n"," ","o","f"," ","t","h","e"," ","b","o","o","k"," ","(","u","s","e","d"," ","f","o","r"," ","E","P","U","B"," ","m","e","t","a","d","a","t","a",")">>,
     <<"c","o","v","e","r",":","p","a","t","h"," "," "," "," "," "," "," "," "," "," "," "," "," "," "," "," "," "," "," "," "," "," "," "," "," "," ","#"," ","F","i","l","e"," ","n","a","m","e"," ","o","f"," ","t","h","e"," ","c","o","v","e","r"," ","o","f"," ","t","h","e"," ","b","o","o","k"," ">>,
     <<"#"," ","O","u","t","p","u","t"," ","o","p","t","i","o","n","s">>,
     <<"o","u","t","p","u","t",".","e","p","u","b",":","p","a","t","h"," "," "," "," "," "," "," "," "," "," "," "," "," "," "," "," "," "," "," "," ","#"," ","O","u","t","p","u","t"," ","f","i","l","e"," ","n","a","m","e"," ","f","o","r"," ","E","P","U","B"," ","r","e","n","d","e","r","i","n","g">>,
     <<"o","u","t","p","u","t",".","h","t","m","l",":","p","a","t","h"," "," "," "," "," "," "," "," "," "," "," "," "," "," "," "," "," "," "," "," ","#"," ","O","u","t","p","u","t"," ","f","i","l","e"," ","n","a","m","e"," ","f","o","r"," ","H","T","M","L"," ","r","e","n","d","e","r","i","n","g">>,
     <<"o","u","t","p","u","t",".","t","e","x",":","p","a","t","h"," "," "," "," "," "," "," "," "," "," "," "," "," "," "," "," "," "," "," "," "," ","#"," ","O","u","t","p","u","t"," ","f","i","l","e"," ","n","a","m","e"," ","f","o","r"," ","L","a","T","e","X"," ","r","e","n","d","e","r","i","n","g">>,
     <<"o","u","t","p","u","t",".","p","d","f",":","p","a","t","h"," "," "," "," "," "," "," "," "," "," "," "," "," "," "," "," "," "," "," "," "," ","#"," ","O","u","t","p","u","t"," ","f","i","l","e"," ","n","a","m","e"," ","f","o","r"," ","P","D","F"," ","r","e","n","d","e","r","i","n","g">>,
     <<"o","u","t","p","u","t",".","o","d","t",":","p","a","t","h"," "," "," "," "," "," "," "," "," "," "," "," "," "," "," "," "," "," "," "," "," ","#"," ","O","u","t","p","u","t"," ","f","i","l","e"," ","n","a","m","e"," ","f","o","r"," ","O","D","T"," ","r","e","n","d","e","r","i","n","g">>,
     <<>>,
     <<>>,
     <<"#"," ","M","i","s","c"," ","o","p","t","i","o","n","s">>,
     <<"z","i","p",".","c","o","m","m","a","n","d",":","s","t","r",":","z","i","p"," "," "," "," "," "," "," "," "," "," "," "," "," "," "," "," "," ","#"," ","C","o","m","m","a","n","d"," ","t","o"," ","u","s","e"," ","t","o"," ","z","i","p"," ","f","i","l","e","s"," ","(","f","o","r"," ","E","P","U","B","/","O","D","T",")">>,
     <<"n","u","m","b","e","r","i","n","g",":","i","n","t",":","1"," "," "," "," "," "," "," "," "," "," "," "," "," "," "," "," "," "," "," "," "," ","#"," ","T","h","e"," "," ","m","a","x","i","m","u","m"," ","h","e","a","d","i","n","g"," ","l","e","v","e","l","s"," ","t","o"," ","n","u","m","b","e","r"," ","(","0",":"," ","n","o"," ","n","u","m","b","e","r","i","n","g",","," ","1",":"," ","o","n","l","y"," ","c","h","a","p","t","e","r","s",","," ",".",".",".",","," ","6",":"," ","a","l","l",")">>,
     <<"d","i","s","p","l","a","y","_","t","o","c",":","b","o","o","l",":","f","a","l","s","e"," "," "," "," "," "," "," "," "," "," "," "," "," "," ","#"," ","I","f"," ","t","r","u","e",","," ","d","i","s","p","l","a","y"," ","a"," ","t","a","b","l","e"," ","o","f"," ","c","o","n","t","e","n","t"," ","i","n"," ","t","h","e"," ","d","o","c","u","m","e","n","t">>,
     <<"t","o","c","_","n","a","m","e",":","s","t","r",":","T","a","b","l","e"," ","o","f"," ","c","o","n","t","e","n","t","s"," "," "," "," "," "," ","#"," ","N","a","m","e"," ","o","f"," ","t","h","e"," ","t","a","b","l","e"," ","o","f"," ","c","o","n","t","e","n","t","s"," ","i","f"," ","t","o","c"," ","i","s"," ","d","i","s","p","l","a","y","e","d"," ","i","n"," ","l","i","n","e">>,
     <<"a","u","t","o","c","l","e","a","n",":","b","o","o","l",":","t","r","u","e"," "," "," "," "," "," "," "," "," "," "," "," "," "," "," "," "," ","#"," ","T","o","g","g","l","e","s"," ","c","l","e","a","n","i","n","g"," ","o","f"," ","i","n","p","u","t"," ","m","a","r","k","d","o","w","n"," ","(","n","o","t"," ","u","s","e","d"," ","f","o","r"," ","L","a","T","e","X",")">>,
     <<"v","e","r","b","o","s","e",":","b","o","o","l",":","f","a","l","s","e"," "," "," "," "," "," "," "," "," "," "," "," "," "," "," "," "," "," ","#"," ","I","f"," ","s","e","t"," ","t","o"," ","t","r","u","e",","," ","p","r","i","n","t"," ","w","a","r","n","i","n","g","s"," ","i","n"," ","M","a","r","k","d","o","w","n"," ","p","r","o","c","e","s","s","i","n","g">>,
     <<"s","i","d","e","_","n","o","t","e","s",":","b","o","o","l",":","f","a","l","s","e"," "," "," "," "," "," "," "," "," "," "," "," "," "," "," ","#"," ","D","i","s","p","l","a","y"," ","f","o","o","t","n","o","t","e","s"," ","a","s"," ","s","i","d","e"," ","n","o","t","e","s"," ","i","n"," ","H","T","M","L","/","E","p","u","b">>,
     <<"t","e","m","p","_","d","i","r",":","p","a","t","h",":"," "," "," "," "," "," "," "," "," "," "," "," "," "," "," "," "," "," "," "," "," "," ","#"," ","P","a","t","h"," ","w","h","e","r","e"," ","t","o"," ","c","r","e","a","t","e"," ","a"," ","t","e","m","p","o","r","a","r","y"," ","d","i","r","e","c","t","o","r","y"," ","(","d","e","f","a","u","l","t",":"," ","u","s","e","s"," ","r","e","s","u","l","t"," ","f","r","o","m"," ","R","u","s","t","'","s"," ","s","t","d",":",":","e","n","v",":",":","t","e","m","p","_","d","i","r","(",")",")">>,
     <<"n","u","m","b","e","r","i","n","g","_","t","e","m","p","l","a","t","e",":","s","t","r",":","{","{","n","u","m","b","e","r","}","}","."," ","{","{","t","i","t","l","e","}","}"," ","#"," ","F","o","r","m","a","t"," ","o","f"," ","n","u","m","b","e","r","e","d"," ","t","i","t","l","e","s">>,
     <<"n","b","_","c","h","a","r",":","c","h","a","r",":","'","U+202F","'"," "," "," "," "," "," "," "," "," "," "," "," "," "," "," "," "," "," "," "," ","#"," ","T","h","e"," ","n","o","n","-","b","r","e","a","k","i","n","g"," ","c","h","a","r","a","c","t","e","r"," ","t","o"," ","u","s","e"," ","f","o","r"," ","a","u","t","o","c","l","e","a","n"," ","w","h","e","n"," ","l","a","n","g"," ","i","s"," ","s","e","t"," ","t","o"," ","f","r">>,
     <<>>,
     <<"#"," ","H","T","M","L"," ","o","p","t","i","o","n","s">>,
     <<"h","t","m","l",".","t","e","m","p","l","a","t","e",":","p","a","t","h"," "," "," "," "," "," "," "," "," "," "," "," "," "," "," "," "," "," ","#"," ","P","a","t","h"," ","o","f"," ","a","n"," ","H","T","M","L"," ","t","e","m","p","l","a","t","e">>,
     <<"h","t","m","l",".","c","s","s",":","p","a","t","h"," "," "," "," "," "," "," "," "," "," "," "," "," "," "," "," "," "," "," "," "," "," "," ","#"," ","P","a","t","h"," ","o","f"," ","a"," ","s","t","y","l","e","s","h","e","e","t"," ","t","o"," ","u","s","e"," ","w","i","t","h"," ","H","T","M","L"," ","r","e","n","d","e","r","i","n","g">>,
     <<>>,
     <<"#"," ","E","P","U","B"," ","o","p","t","i","o","n","s">>,
     <<"e","p","u","b",".","v","e","r","s","i","o","n",":","i","n","t",":","2"," "," "," "," "," "," "," "," "," "," "," "," "," "," "," "," "," "," ","#"," ","T","h","e"," ","E","P","U","B"," ","v","e","r","s","i","o","n"," ","t","o"," ","g","e","n","e","r","a","t","e">>,
     <<"e","p","u","b",".","c","s","s",":","p","a","t","h"," "," "," "," "," "," "," "," "," "," "," "," "," "," "," "," "," "," "," "," "," "," "," ","#"," ","P","a","t","h"," ","o","f"," ","a"," ","s","t","y","l","e","s","h","e","e","t"," ","t","o"," ","u","s","e"," ","w","i","t","h"," ","E","P","U","B"," ","r","e","n","d","e","r","i","n","g">>,
     <<"e","p","u","b",".","t","e","m","p","l","a","t","e",":","p","a","t","h"," "," "," "," "," "," "," "," "," "," "," "," "," "," "," "," "," "," ","#"," ","P","a","t","h"," ","o","f"," ","a","n"," ","e","p","u","b"," ","t","e","m","p","l","a","t","e"," ","f","o","r"," ","c","h","a","p","t","e","r">>,
     <<>>,
     <<"#"," ","L","a","T","e","X"," ","o","p","t","i","o","n","s">>,
     <<"t","e","x",".","l","i","n","k","s","_","a","s","_","f","o","o","t","n","o","t","e","s",":","b","o","o","l",":","t","r","u","e"," "," "," "," ","#"," ","I","f"," ","s","e","t"," ","t","o"," ","t","r","u","e",","," ","w","i","l","l"," ","a","d","d"," ","f","o","o","n","t","o","t","e","s"," ","t","o"," ","U","R","L"," ","o","f"," ","l","i","n","k","s"," ","i","n"," ","L","a","T","e","X","/","P","D","F"," ","o","u","t","p","u","t">>,
     <<"t","e","x",".","c","o","m","m","a","n","d",":","s","t","r",":","p","d","f","l","a","t","e","x"," "," "," "," "," "," "," "," "," "," "," "," ","#"," ","L","a","T","e","X"," ","f","l","a","v","o","u","r"," ","t","o"," ","u","s","e"," ","f","o","r"," ","g","e","n","e","r","a","t","i","n","g"," ","P","D","F">>,
     <<"t","e","x",".","t","e","m","p","l","a","t","e",":","p","a","t","h"," "," "," "," "," "," "," "," "," "," "," "," "," "," "," "," "," "," "," ","#"," ","P","a","t","h"," ","o","f"," ","a"," ","L","a","T","e","X"," ","t","e","m","p","l","a","t","e"," ","f","i","l","e">> >>

\* One line of options_to_vec: (comment, key, type, default value)
ParseLine(line) ==
  IF StartsWith(line, "#")
  THEN [comment |-> Tail(line), key |-> None, option_type |-> None,
        default_value |-> None]
  ELSE LET v0      == Split(line, "#")
           content == v0[1]
           comment == v0[2]
           v       == Split(content, ":")
       IN  [comment |-> comment,
            key |-> Some(Trim(v[1])),
            option_type |-> Some(Trim(v[2])),
            default_value |-> IF Len(v) > 2 THEN Some(Trim(v[3])) ELSE None]

\* BookOptions::options_to_vec
options_to_vec ==
  LET trimmed == [i \in 1..Len(OPTIONS) |-> Trim(OPTIONS[i])]
      kept    == SelectSeq(trimmed, LAMBDA l : l # <<>>)
  IN  [i \in 1..Len(kept) |-> ParseLine(kept[i])]

---------------------------------------------------------------------------
(* String literals of the code.                                            *)

lit_str == <<"s","t","r">>

lit_bool == <<"b","o","o","l">>

lit_int == <<"i","n","t">>

lit_char == <<"c","h","a","r">>

lit_path == <<"p","a","t","h">>

lit_boolean == <<"b","o","o","l","e","a","n">>

lit_integer == <<"i","n","t","e","g","e","r">>

lit_string == <<"s","t","r","i","n","g">>

lit_not_set == <<"n","o","t"," ","s","e","t">>

lit_temp_dir == <<"t","e","m","p","_","d","i","r">>

lit_true == <<"t","r","u","e">>

lit_false == <<"f","a","l","s","e">>

---------------------------------------------------------------------------
(* Result<T> is [Ok |-> v] or [Err |-> e]; an error e is                   *)
(* <<variant of Error, message, argument of the message>>.                 *)

Ok(v) == [Ok |-> v]

Err(variant, msg, arg) == [Err |-> <<variant, msg, arg>>]

IsOk(r) == "Ok" \in DOMAIN r

Unit == <<>>

(* enum BookOption: a record with the variant as its one field.            *)

BO_String(s) == [String |-> s]

BO_Bool(b) == [Bool |-> b]

BO_Char(c) == [Char |-> c]

BO_Int(i) == [Int |-> i]

BO_Path(s) == [Path |-> s]

\* the variant of a BookOption
Kind(o) == CHOOSE k \in DOMAIN o : TRUE

\* as_str, were it to take a path for a string
as_str_or_path(o) ==
  IF "String" \in DOMAIN o THEN Ok(o.String)
  ELSE IF "Path" \in DOMAIN o THEN Ok(o.Path)
  ELSE Err("BookOption", "{:?} is not a string", o)

\* BookOption::as_str
as_str(o) ==
  IF "String" \in DOMAIN o THEN Ok(o.String)
  ELSE Err("BookOption", "{:?} is not a string", o)

\* BookOption::as_path
as_path(o) ==
  IF "Path" \in DOMAIN o THEN Ok(o.Path)
  ELSE Err("BookOption", "{:?} is not a path", o)

\* BookOption::as_bool
as_bool(o) ==
  IF "Bool" \in DOMAIN o THEN Ok(o.Bool)
  ELSE Err("BookOption", "{:?} is not a bool", o)

\* BookOption::as_char
as_char(o) ==
  IF "Char" \in DOMAIN o THEN Ok(o.Char)
  ELSE Err("BookOption", "{:?} is not a char", o)

\* BookOption::as_i32
as_i32(o) ==
  IF "Int" \in DOMAIN o THEN Ok(o.Int)
  ELSE Err("BookOption", "{:?} is not an i32", o)

---------------------------------------------------------------------------
(* str::parse::<bool> and str::parse::<i32>; None is the parse error.      *)

ParseBool(s) ==
  IF s = lit_true THEN Some(TRUE)
  ELSE IF s = lit_false THEN Some(FALSE)
  ELSE None

I32_MAX == 2147483647

I32_MIN == (0 - I32_MAX) - 1

Digits == {"0", "1", "2", "3", "4", "5", "6", "7", "8", "9"}

DigitValue(c) ==
  CASE c = "0" -> 0 [] c = "1" -> 1 [] c = "2" -> 2 [] c = "3" -> 3
    [] c = "4" -> 4 [] c = "5" -> 5 [] c = "6" -> 6 [] c = "7" -> 7
    [] c = "8" -> 8 [] c = "9" -> 9

\* i32::checked_mul(result, 10), then checked_add (a positive number) or
\* checked_sub (a negative one) of the digit; None on overflow
CheckedStep(result, d, negative) ==
  IF negative
  THEN IF result < 0 - (I32_MAX \div 10) THEN None
       ELSE IF result * 10 < I32_MIN + d THEN None
       ELSE Some(result * 10 - d)
  ELSE IF result > I32_MAX \div 10 THEN None
       ELSE IF result * 10 > I32_MAX - d THEN None
       ELSE Some(result * 10 + d)

\* the accumulation loop of from_str_radix, left to right from digit i
RECURSIVE Accumulate(_, _, _, _)
Accumulate(digits, i, result, negative) ==
  IF i > Len(digits) THEN Some(result)
  ELSE LET next == CheckedStep(result, DigitValue(digits[i]), negative)
       IN  IF next = None THEN None
           ELSE Accumulate(digits, i + 1, next[1], negative)

\* str::parse::<i32>: an optional sign, then one or more decimal digits
ParseI32(s) ==
  IF s = <<>> THEN None
  ELSE LET signed == s[1] \in {"+", "-"}
           digits == IF signed THEN Tail(s) ELSE s
       IN  IF digits = <<>> \/ \E i \in 1..Len(digits) : digits[i] \notin Digits
           THEN None
           ELSE Accumulate(digits, 1, 0, s[1] = "-")

---------------------------------------------------------------------------
(* struct BookOptions and its methods. A store is the record of its fields.*)

\* insert, were it to keep the value a key already has
InsertIfAbsent(m, k, v) ==
  [x \in (DOMAIN m) \cup {k} |-> IF x \in DOMAIN m THEN m[x] ELSE v]

\* HashMap::insert
Insert(m, k, v) ==
  [x \in (DOMAIN m) \cup {k} |-> IF x = k THEN v ELSE m[x]]

\* the result of set: the store after the call and the value returned
SetResult(self, res) == [self |-> self, res |-> res]

\* self.options.insert(key, value); Ok(())
Stored(self, key, o) ==
  SetResult([self EXCEPT !.options = Insert(self.options, key, o)], Ok(Unit))

\* the char branch of set
set_char(self, key, value) ==
  LET words == Split(Trim(value), "'")
  IN  IF Len(words) # 3
      THEN SetResult(self, Err("ConfigParser", "could not parse char", value))
      ELSE LET chars == words[2]
           IN  IF Len(chars) # 1
               THEN SetResult(self, Err("ConfigParser", "could not parse char", value))
               ELSE Stored(self, key, BO_Char(chars[1]))

\* the bool branch of set
set_bool(self, key, value) ==
  LET b == ParseBool(value)
  IN  IF b # None
      THEN Stored(self, key, BO_Bool(b[1]))
      ELSE SetResult(self, Err("ConfigParser", "could not parse bool",
                               key \o <<":">> \o value))

\* the int branch of set
set_int(self, key, value) ==
  LET i == ParseI32(value)
  IN  IF i # None
      THEN Stored(self, key, BO_Int(i[1]))
      ELSE SetResult(self, Err("ConfigParser", "could not parse int",
                               key \o <<":">> \o value))

\* set, were it to store the value of a path key as a String
set_path_as_string(self, key, value) ==
  IF Contains(self.valid_strings, key) \/ Contains(self.valid_paths, key)
  THEN Stored(self, key, BO_String(value))
  ELSE IF Contains(self.valid_chars, key)
  THEN set_char(self, key, value)
  ELSE IF Contains(self.valid_bools, key)
  THEN set_bool(self, key, value)
  ELSE IF Contains(self.valid_ints, key)
  THEN set_int(self, key, value)
  ELSE SetResult(self, Err("ConfigParser", "unrecognized key", key))

\* set, were it to take a key that is in no list for a string key
set_any_key(self, key, value) ==
  IF Contains(self.valid_paths, key)
  THEN Stored(self, key, BO_Path(value))
  ELSE IF Contains(self.valid_chars, key)
  THEN set_char(self, key, value)
  ELSE IF Contains(self.valid_bools, key)
  THEN set_bool(self, key, value)
  ELSE IF Contains(self.valid_ints, key)
  THEN set_int(self, key, value)
  ELSE Stored(self, key, BO_String(value))

\* BookOptions::set
set(self, key, value) ==
  IF Contains(self.valid_strings, key)
  THEN Stored(self, key, BO_String(value))
  ELSE IF Contains(self.valid_paths, key)
  THEN Stored(self, key, BO_Path(value))
  ELSE IF Contains(self.valid_chars, key)
  THEN set_char(self, key, value)
  ELSE IF Contains(self.valid_bools, key)
  THEN set_bool(self, key, value)
  ELSE IF Contains(self.valid_ints, key)
  THEN set_int(self, key, value)
  ELSE SetResult(self, Err("ConfigParser", "unrecognized key", key))

\* panic!: construction yields no store
Panic == [panic |-> TRUE]

Panicked(x) == "panic" \in DOMAIN x

\* the match of new, were a path key pushed to the list of the string keys
PushKeyPathAsString(self, key, option_type) ==
  CASE option_type \in {lit_str, lit_path} ->
         [self EXCEPT !.valid_strings = Append(@, key)]
    [] option_type = lit_bool ->
         [self EXCEPT !.valid_bools = Append(@, key)]
    [] option_type = lit_int ->
         [self EXCEPT !.valid_ints = Append(@, key)]
    [] option_type = lit_char ->
         [self EXCEPT !.valid_chars = Append(@, key)]
    [] OTHER -> Panic

\* the match of new on the type of an option: the list the key is pushed to
PushKey(self, key, option_type) ==
  CASE option_type = lit_str ->
         [self EXCEPT !.valid_strings = Append(@, key)]
    [] option_type = lit_bool ->
         [self EXCEPT !.valid_bools = Append(@, key)]
    [] option_type = lit_int ->
         [self EXCEPT !.valid_ints = Append(@, key)]
    [] option_type = lit_char ->
         [self EXCEPT !.valid_chars = Append(@, key)]
    [] option_type = lit_path ->
         [self EXCEPT !.valid_paths = Append(@, key)]
    [] OTHER -> Panic

\* the loop of new over options_to_vec, from entry i on; temp_dir is the
\* text of env::temp_dir(). The result is the store, or Panic when the type
\* is unrecognized or an unwrap of set fails.
RECURSIVE NewLoop(_, _, _, _)
NewLoop(self, entries, i, temp_dir) ==
  IF i > Len(entries) THEN self
  ELSE LET e == entries[i]
       IN  IF e.key = None THEN NewLoop(self, entries, i + 1, temp_dir)
           ELSE LET key    == e.key[1]
                    pushed == PushKey(self, key, e.option_type[1])
                IN  IF Panicked(pushed) THEN Panic
                    ELSE IF key = lit_temp_dir
                    THEN LET r == set(pushed, key, temp_dir)
                         IN  IF IsOk(r.res)
                             THEN NewLoop(r.self, entries, i + 1, temp_dir)
                             ELSE Panic
                    ELSE IF e.default_value # None
                    THEN LET r == set(pushed, key, e.default_value[1])
                         IN  IF IsOk(r.res)
                             THEN NewLoop(r.self, entries, i + 1, temp_dir)
                             ELSE Panic
                    ELSE NewLoop(pushed, entries, i + 1, temp_dir)

\* new, were it to leave out the literal defaults
new_without_defaults(temp_dir) ==
  NewLoop([options |-> <<>>, valid_bools |-> <<>>, valid_chars |-> <<>>,
           valid_ints |-> <<>>, valid_strings |-> <<>>, valid_paths |-> <<>>,
           root |-> <<>>],
          [i \in DOMAIN options_to_vec |->
             [options_to_vec[i] EXCEPT !.default_value = None]],
          1, temp_dir)

\* BookOptions::new
new(temp_dir) ==
  NewLoop([options |-> <<>>, valid_bools |-> <<>>, valid_chars |-> <<>>,
           valid_ints |-> <<>>, valid_strings |-> <<>>, valid_paths |-> <<>>,
           root |-> <<>>],
          options_to_vec, 1, temp_dir)

\* BookOptions::get
get(self, key) ==
  IF key \in DOMAIN self.options THEN Ok(self.options[key])
  ELSE Err("InvalidOption", "option {} is not persent", key)

\* BookOptions::get_str
get_str(self, key) ==
  LET o == get(self, key) IN IF IsOk(o) THEN as_str(o.Ok) ELSE o

\* A byte of a path that is not part of any UTF-8 text
InvalidByte == "0xFF"

\* Path::to_str: None when the path is not valid UTF-8
to_str(p) ==
  IF \E i \in 1..Len(p) : p[i] = InvalidByte THEN None ELSE Some(p)

\* join, were it to add no separator
join_without_separator(base, path) ==
  IF StartsWith(path, "/") THEN path ELSE base \o path

\* Path::join (PathBuf::push) on Unix: an absolute path replaces the base;
\* a separator is added when the base is not empty and does not end with one
join(base, path) ==
  IF StartsWith(path, "/") THEN path
  ELSE IF Len(base) > 0 /\ base[Len(base)] # "/" THEN base \o <<"/">> \o path
  ELSE base \o path

\* BookOptions::get_path
get_path(self, key) ==
  LET o == get(self, key)
  IN  IF ~IsOk(o) THEN o
      ELSE LET path == as_path(o.Ok)
           IN  IF ~IsOk(path) THEN path
               ELSE LET new_path == to_str(join(self.root, path.Ok))
                    IN  IF new_path # None THEN Ok(new_path[1])
                        ELSE Err("BookOption",
                                 "'{}''s path contains invalid UTF-8 code", key)

\* BookOptions::get_relative_path
get_relative_path(self, key) ==
  LET o == get(self, key) IN IF IsOk(o) THEN as_path(o.Ok) ELSE o

\* BookOptions::get_bool
get_bool(self, key) ==
  LET o == get(self, key) IN IF IsOk(o) THEN as_bool(o.Ok) ELSE o

\* BookOptions::get_char
get_char(self, key) ==
  LET o == get(self, key) IN IF IsOk(o) THEN as_char(o.Ok) ELSE o

\* BookOptions::get_i32
get_i32(self, key) ==
  LET o == get(self, key) IN IF IsOk(o) THEN as_i32(o.Ok) ELSE o

\* the match of description on the type of an option
TypeName(option_type) ==
  CASE option_type = lit_bool -> lit_boolean
    [] option_type = lit_int  -> lit_integer
    [] option_type = lit_char -> lit_char
    [] option_type = lit_str  -> lit_string
    [] option_type = lit_path -> lit_path

\* what description pushes, were an empty default text taken for no default
DescribeOptionEmptyUnset(md, e) ==
  LET def == IF e.default_value # None /\ e.default_value[1] # <<>>
             THEN e.default_value[1] ELSE lit_not_set
  IN  <<IF md THEN "md" ELSE "plain",
        e.key[1], TypeName(e.option_type[1]), def, e.comment>>

\* what description pushes for an option: the format, then its arguments
DescribeOption(md, e) ==
  LET def == IF e.default_value # None THEN e.default_value[1] ELSE lit_not_set
  IN  <<IF md THEN "md" ELSE "plain",
        e.key[1], TypeName(e.option_type[1]), def, e.comment>>

\* the loop of description, from entry i on. out is the sequence of the
\* texts pushed: <<"\n">>, <<"###", comment>> for "### {} ###\n", and
\* <<"md" or "plain", key, type, default, comment>> for an option.
RECURSIVE DescLoop(_, _, _, _, _)
DescLoop(md, entries, i, out, previous_is_comment) ==
  IF i > Len(entries) THEN out
  ELSE LET e == entries[i]
       IN  IF e.key = None
           THEN DescLoop(md, entries, i + 1,
                         (IF ~previous_is_comment THEN Append(out, <<"\n">>)
                          ELSE out) \o << <<"###", e.comment>> >>,
                         TRUE)
           ELSE DescLoop(md, entries, i + 1,
                         Append(out, DescribeOption(md, e)), FALSE)

\* BookOptions::description
description(md) == DescLoop(md, options_to_vec, 1, <<>>, TRUE)

\* description(md) for both values of md
Described == [md \in BOOLEAN |-> description(md)]

---------------------------------------------------------------------------
(* The inputs of the model.                                                *)

key_author == <<"a","u","t","h","o","r">>

key_cover == <<"c","o","v","e","r">>

key_nb_char == <<"n","b","_","c","h","a","r">>

key_autoclean == <<"a","u","t","o","c","l","e","a","n">>

key_numbering == <<"n","u","m","b","e","r","i","n","g">>

key_autor == <<"a","u","t","o","r">>

key_lang == <<"l","a","n","g">>

key_display_toc == <<"d","i","s","p","l","a","y","_","t","o","c">>

v_joan_doe == <<"J","o","a","n"," ","D","o","e">>

v_2 == <<"2">>

v_foo == <<"f","o","o">>

v_true == <<"t","r","u","e">>

v_false == <<"f","a","l","s","e">>

v_notabool == <<"n","o","t","a","b","o","o","l">>

v_quoted_space == <<"'"," ","'">>

v_xx == <<"x","x">>

v_padded_x == <<" ","'","x","'"," ">>

v_text_around == <<"a","'","x","'","b">>

v_quoted_two == <<"'","x","y","'">>

v_img == <<"i","m","g","/","c",".","p","n","g">>

v_abs == <<"/","c",".","p","n","g">>

v_minus_3 == <<"-","3">>

v_too_big == <<"2","1","4","7","4","8","3","6","4","8">>

v_empty == <<>>

r_mybook == <<"/","b","o","o","k","s","/","m","y","b","o","o","k">>

r_slash == <<"/","b","/">>

r_not_utf8 == <<"/",InvalidByte>>

t_tmp == <<"/","t","m","p">>

\* the keys given to set and to the accessors: one key of each type and a
\* misspelt one
Keys ==
  {key_author, key_cover, key_nb_char, key_autoclean, key_numbering, key_autor}

\* the raw values given to set for the keys that parse them
Values ==
  {v_joan_doe, v_2, v_foo, v_true, v_false, v_notabool, v_quoted_space, v_xx,
   v_padded_x, v_text_around, v_quoted_two, v_img, v_abs, v_minus_3,
   v_too_big, v_empty}

\* the raw values given to set for author and cover, which store any text,
\* and for autor
Texts == {v_joan_doe, v_quoted_space, v_img, v_abs, v_empty}

\* the calls of set: <<key, value>>
Inputs ==
  ({key_nb_char, key_autoclean, key_numbering} \X Values)
    \cup ({key_author, key_cover, key_autor} \X Texts)

\* the paths assigned to root
Roots == {r_mybook, r_slash, r_not_utf8}

\* the texts env::temp_dir() gives
TempDirs == {t_tmp}

---------------------------------------------------------------------------
(* The state: the fields of the one BookOptions value, the last call as    *)
(* <<operation, key, argument, value returned>>, and the number of         *)
(* mutating calls made.                                                    *)

VARIABLES options, valid_bools, valid_chars, valid_strings, valid_paths,
          valid_ints, root, last, writes

vars == <<options, valid_bools, valid_chars, valid_strings, valid_paths,
          valid_ints, root, last, writes>>

\* the BookOptions value of the current state
Self ==
  [options |-> options, valid_bools |-> valid_bools,
   valid_chars |-> valid_chars, valid_ints |-> valid_ints,
   valid_strings |-> valid_strings, valid_paths |-> valid_paths,
   root |-> root]

\* the next state holds the BookOptions value s
Becomes(s) ==
  /\ options' = s.options
  /\ valid_bools' = s.valid_bools
  /\ valid_chars' = s.valid_chars
  /\ valid_ints' = s.valid_ints
  /\ valid_strings' = s.valid_strings
  /\ valid_paths' = s.valid_paths
  /\ root' = s.root

LastOp == last[1]

LastKey == last[2]

LastArg == last[3]

LastRes == last[4]

\* let book = BookOptions::new()
Init ==
  \E temp_dir \in TempDirs :
    LET s == new(temp_dir)
    IN  /\ ~Panicked(s)
        /\ options = s.options
        /\ valid_bools = s.valid_bools
        /\ valid_chars = s.valid_chars
        /\ valid_ints = s.valid_ints
        /\ valid_strings = s.valid_strings
        /\ valid_paths = s.valid_paths
        /\ root = s.root
        /\ last = <<"new", <<>>, temp_dir, Ok(Unit)>>
        /\ writes = 0

\* book.set(key, value)
Set(key, value) ==
  /\ writes < MaxWrites
  /\ LET r == set(Self, key, value)
     IN  /\ Becomes(r.self)
         /\ last' = <<"set", key, value, r.res>>
  /\ writes' = writes + 1

\* book.root = r
AssignRoot(r) ==
  /\ writes < MaxWrites
  /\ root' = r
  /\ last' = <<"root", <<>>, r, Ok(Unit)>>
  /\ writes' = writes + 1
  /\ UNCHANGED <<options, valid_bools, valid_chars, valid_strings,
                 valid_paths, valid_ints>>

ReadOps ==
  {"get", "get_str", "get_path", "get_relative_path", "get_bool",
   "get_char", "get_i32", "description"}

\* A read-only call (an accessor, which takes &self, or description, which
\* takes no store) on the store as the last mutating call left it. A second
\* read-only call in a row would see the same store and reach the states
\* the first one reaches, so the model makes one.
Read(op, key, res) ==
  /\ LastOp \notin ReadOps
  /\ last' = <<op, key, <<>>, res>>
  /\ UNCHANGED <<options, valid_bools, valid_chars, valid_strings,
                 valid_paths, valid_ints, root, writes>>

Get(key) == Read("get", key, get(Self, key))

GetStr(key) == Read("get_str", key, get_str(Self, key))

GetPath(key) == Read("get_path", key, get_path(Self, key))

GetRelativePath(key) ==
  Read("get_relative_path", key, get_relative_path(Self, key))

GetBool(key) == Read("get_bool", key, get_bool(Self, key))

GetChar(key) == Read("get_char", key, get_char(Self, key))

GetI32(key) == Read("get_i32", key, get_i32(Self, key))

\* BookOptions::description(md)
Describe(md) == Read("description", md, Described[md])

Next ==
  \/ \E in \in Inputs : Set(in[1], in[2])
  \/ \E r \in Roots : AssignRoot(r)
  \/ \E key \in Keys : Get(key)
  \/ \E key \in Keys : GetStr(key)
  \/ \E key \in Keys : GetPath(key)
  \/ \E key \in Keys : GetRelativePath(key)
  \/ \E key \in Keys : GetBool(key)
  \/ \E key \in Keys : GetChar(key)
  \/ \E key \in Keys : GetI32(key)
  \/ \E md \in BOOLEAN : Describe(md)

Spec == Init /\ [][Next]_vars

---------------------------------------------------------------------------
(* The schema as the properties use it:  the option definitions, in        *)
(* declaration order, with their declared type and literal default.        *)

OptionDefs == SelectSeq(options_to_vec, LAMBDA e : e.key # None)

SchemaKeys == {OptionDefs[i].key[1] : i \in DOMAIN OptionDefs}

DefOf(key) ==
  OptionDefs[CHOOSE i \in DOMAIN OptionDefs : OptionDefs[i].key[1] = key]

DeclaredType(key) == DefOf(key).option_type[1]

TypeTokens == {lit_str, lit_path, lit_char, lit_bool, lit_int}

\* the variant of BookOption that holds a value of the declared type
VariantOf(type) ==
  CASE type = lit_str  -> "String"
    [] type = lit_path -> "Path"
    [] type = lit_char -> "Char"
    [] type = lit_bool -> "Bool"
    [] type = lit_int  -> "Int"

\* the valid-key list of the declared type
ValidList(type) ==
  CASE type = lit_str  -> valid_strings
    [] type = lit_path -> valid_paths
    [] type = lit_char -> valid_chars
    [] type = lit_bool -> valid_bools
    [] type = lit_int  -> valid_ints

Occurrences(v, x) == Cardinality({i \in 1..Len(v) : v[i] = x})

\* key is in none of the five valid-key lists
Unrecognized(key) == \A t \in TypeTokens : ~Contains(ValidList(t), key)

ValidLists ==
  <<valid_strings, valid_paths, valid_chars, valid_bools, valid_ints>>

---------------------------------------------------------------------------
(* What a raw value denotes for each type, written from the grammar and    *)
(* not from the parsing code.                                              *)

\* the decimal numeral of a natural number, without leading zeros
RECURSIVE Numeral(_)
Numeral(n) ==
  LET d == <<"0", "1", "2", "3", "4", "5", "6", "7", "8", "9">>[(n % 10) + 1]
  IN  IF n < 10 THEN <<d>> ELSE Append(Numeral(n \div 10), d)

RECURSIVE StripZeros(_)
StripZeros(s) ==
  IF Len(s) > 1 /\ s[1] = "0" THEN StripZeros(Tail(s)) ELSE s

\* the decimal numeral of the magnitude of the 32-bit integer n
Magnitude(n) ==
  IF n = I32_MIN THEN <<"2","1","4","7","4","8","3","6","4","8">>
  ELSE Numeral(IF n < 0 THEN 0 - n ELSE n)

\* the raw value v denotes the integer n: an optional sign, then the
\* decimal numeral of its magnitude (leading zeros allowed)
DenotesInt(v, n) ==
  /\ v # <<>>
  /\ LET digits == IF v[1] \in {"+", "-"} THEN Tail(v) ELSE v
     IN  /\ digits # <<>>
         /\ (v[1] = "-") => (n <= 0)
         /\ (v[1] # "-") => (n >= 0)
         /\ StripZeros(digits) = Magnitude(n)

\* the raw value v denotes the boolean b
DenotesBool(v, b) == (b /\ v = lit_true) \/ (~b /\ v = lit_false)

\* the character that follows the first single quote of v
QuotedChar(v) ==
  LET q == {i \in 1..Len(v) : v[i] = "'"}
      first == CHOOSE i \in q : \A j \in q : i <= j
  IN  v[first + 1]

\* the raw value v denotes the option o for a key of the declared type
Denotes(type, v, o) ==
  CASE type = lit_str  -> o = BO_String(v)
    [] type = lit_path -> o = BO_Path(v)
    [] type = lit_char -> o = BO_Char(QuotedChar(v))
    [] type = lit_bool -> "Bool" \in DOMAIN o /\ DenotesBool(v, o.Bool)
    [] type = lit_int  -> "Int" \in DOMAIN o /\ DenotesInt(v, o.Int)

\* digit sequences of equal length, compared as numbers
RECURSIVE DigitsLeq(_, _)
DigitsLeq(a, b) ==
  IF a = <<>> THEN TRUE
  ELSE IF a[1] # b[1] THEN DigitValue(a[1]) < DigitValue(b[1])
  ELSE DigitsLeq(Tail(a), Tail(b))

\* the grammar of a char value: after trimming, a single quote, one
\* character, a single quote
CharGrammar(v) ==
  LET t == Trim(v) IN Len(t) = 3 /\ t[1] = "'" /\ t[3] = "'"

\* the grammar of a bool value: exactly true or false
BoolGrammar(v) == v \in {lit_true, lit_false}

\* the grammar of an int value: a base-10 signed 32-bit integer
IntGrammar(v) ==
  /\ v # <<>>
  /\ LET digits == IF v[1] \in {"+", "-"} THEN Tail(v) ELSE v
         m      == StripZeros(digits)
         limit  == Magnitude(IF v[1] = "-" THEN I32_MIN ELSE I32_MAX)
     IN  /\ digits # <<>>
         /\ \A i \in 1..Len(digits) : digits[i] \in Digits
         /\ Len(m) < Len(limit) \/ (Len(m) = Len(limit) /\ DigitsLeq(m, limit))

\* v is in the grammar of the declared type (any text is a string or a path)
InGrammar(type, v) ==
  CASE type = lit_char -> CharGrammar(v)
    [] type = lit_bool -> BoolGrammar(v)
    [] type = lit_int  -> IntGrammar(v)
    [] OTHER -> TRUE

\* the fields of the store
Store == <<options, ValidLists, root>>

---------------------------------------------------------------------------
\* the five lists hold the keys of the schema, each in the list of its
\* declared type and nowhere else
ValidKeysMatchSchema ==
  /\ \A i \in DOMAIN OptionDefs :
       LET key == OptionDefs[i].key[1]
           t   == OptionDefs[i].option_type[1]
       IN  /\ t \in TypeTokens
           /\ Occurrences(ValidList(t), key) = 1
           /\ \A u \in TypeTokens \ {t} : ~Contains(ValidList(u), key)
  /\ \A t, u \in TypeTokens :
       t # u => \A i \in 1..Len(ValidList(t)) :
                  ~Contains(ValidList(u), ValidList(t)[i])
  /\ \A t \in TypeTokens : \A i \in 1..Len(ValidList(t)) :
       ValidList(t)[i] \in SchemaKeys

(* C7. After new(), every key of an option definition of the schema is in  *)
(* exactly one of the five valid-key lists, the one of its declared type,  *)
(* and occurs there once; the lists are pairwise disjoint and hold no key  *)
(* that is not in the schema; and no call changes them, neither set nor an *)
(* accessor.                                                               *)
ValidKeysLists == []ValidKeysMatchSchema /\ [][ValidLists' = ValidLists]_vars

\* a set call has succeeded and a key of every type is in its list
ValidKeysWitness ==
  /\ LastOp = "set" /\ IsOk(LastRes) /\ writes = 2
  /\ Contains(valid_strings, key_author) /\ Contains(valid_paths, key_cover)
  /\ Contains(valid_chars, key_nb_char) /\ Contains(valid_bools, key_autoclean)
  /\ Contains(valid_ints, key_numbering)

---------------------------------------------------------------------------
\* every stored key is declared, with a value of the variant of its type
StoredKindsMatchSchema ==
  \A key \in DOMAIN options :
    /\ key \in SchemaKeys
    /\ Kind(options[key]) = VariantOf(DeclaredType(key))

(* C2. In every state reached from new() by successful and failed set      *)
(* calls, every key that has a stored value is declared in the schema and  *)
(* the kind of its value is the type the schema declares for the key; a    *)
(* later set replaces the value of a key and never changes its kind.       *)
StoredKinds ==
  /\ []StoredKindsMatchSchema
  /\ [][\A key \in (DOMAIN options) \cap (DOMAIN options') :
          Kind(options'[key]) = Kind(options[key])]_vars

\* a failed set, then a set that replaced the default of numbering
StoredKindsWitness ==
  /\ LastOp = "set" /\ IsOk(LastRes) /\ LastKey = key_numbering
  /\ writes = 2 /\ root = <<>>
  /\ options[key_numbering] = BO_Int(-3)
  /\ options[key_author] = BO_String(<<"A","n","o","n","y","m","o","u","s">>)
  /\ options[key_nb_char] = BO_Char("U+202F")
  /\ options[key_autoclean] = BO_Bool(TRUE)
  /\ key_cover \notin DOMAIN options

---------------------------------------------------------------------------
(* C5. Immediately after new(): every option definition other than         *)
(* temp_dir that has a literal default holds that default converted to its *)
(* declared type (lang is "en", numbering is 1, display_toc is false), and *)
(* every option definition without a default holds no value, get failing   *)
(* with the "option not present" error.                                    *)
DefaultsAfterNew ==
  LastOp = "new" =>
    /\ \A i \in DOMAIN OptionDefs :
         LET e   == OptionDefs[i]
             key == e.key[1]
         IN  /\ (e.default_value # None /\ key # lit_temp_dir) =>
                  /\ key \in DOMAIN options
                  /\ Denotes(e.option_type[1], e.default_value[1], options[key])
             /\ (e.default_value = None) =>
                  /\ key \notin DOMAIN options
                  /\ get(Self, key)
                       = Err("InvalidOption", "option {} is not persent", key)
    /\ get_str(Self, key_lang) = Ok(<<"e","n">>)
    /\ get_i32(Self, key_numbering) = Ok(1)
    /\ get_bool(Self, key_display_toc) = Ok(FALSE)
    /\ get(Self, key_cover)
         = Err("InvalidOption", "option {} is not persent", key_cover)

\* the store right after new(), with defaults of every type and keys unset
DefaultsAfterNewWitness ==
  /\ LastOp = "new" /\ writes = 0
  /\ Cardinality(DOMAIN options) = 16
  /\ \E i \in DOMAIN OptionDefs : OptionDefs[i].default_value = None
  /\ \A t \in TypeTokens \ {lit_path} : \E i \in DOMAIN OptionDefs :
       OptionDefs[i].option_type[1] = t /\ OptionDefs[i].default_value # None

---------------------------------------------------------------------------
(* C4. set fails with the "unrecognized key" error, carrying the key,      *)
(* exactly when the key is in none of the five valid-key lists, whatever   *)
(* the value; no entry is then created for the key and the store is        *)
(* unchanged.                                                              *)
UnrecognizedKey ==
  [][LastOp' = "set" =>
       /\ (LastRes' = Err("ConfigParser", "unrecognized key", LastKey'))
            <=> Unrecognized(LastKey')
       /\ Unrecognized(LastKey') =>
            /\ ~IsOk(LastRes')
            /\ LastKey' \notin DOMAIN options'
            /\ Store' = Store]_vars

\* set("autor", "Joan Doe") has failed on a store an earlier set changed
UnrecognizedKeyWitness ==
  /\ LastOp = "set" /\ LastKey = key_autor /\ LastArg = v_joan_doe
  /\ LastRes = Err("ConfigParser", "unrecognized key", key_autor)
  /\ options[key_author] = BO_String(v_joan_doe)

---------------------------------------------------------------------------
\* the typed accessor that matches the declared type
Accessor(type) ==
  CASE type = lit_str  -> "get_str"
    [] type = lit_path -> "get_relative_path"
    [] type = lit_char -> "get_char"
    [] type = lit_bool -> "get_bool"
    [] type = lit_int  -> "get_i32"

\* what the typed accessor that matches the declared type returns on store s
Access(type, s, key) ==
  CASE type = lit_str  -> get_str(s, key)
    [] type = lit_path -> get_relative_path(s, key)
    [] type = lit_char -> get_char(s, key)
    [] type = lit_bool -> get_bool(s, key)
    [] type = lit_int  -> get_i32(s, key)

\* the last call was set on a key declared char, bool or int
TypedSet ==
  /\ LastOp = "set"
  /\ LastKey \in SchemaKeys
  /\ DeclaredType(LastKey) \in {lit_char, lit_bool, lit_int}

(* C1. For a key declared char, bool or int and a raw value outside the    *)
(* grammar of that type, set returns an error and leaves the store as it   *)
(* was: the map, the five valid-key lists and root, so that the matching   *)
(* typed accessor returns the same before and after.                       *)
FailedSetLeavesStore ==
  [][(TypedSet' /\ ~InGrammar(DeclaredType(LastKey'), LastArg')) =>
       /\ ~IsOk(LastRes')
       /\ Store' = Store
       /\ Access(DeclaredType(LastKey'), Self', LastKey')
            = Access(DeclaredType(LastKey'), Self, LastKey')]_vars

---------------------------------------------------------------------------
(* C6. For a char key, set succeeds only when the raw value, trimmed, is a *)
(* single quote, one character, a single quote ("' '" gives the space);    *)
(* every other shape, text before the opening quote or after the closing   *)
(* one included, fails with "could not parse char" (as "xx" does).         *)
CharOnlyQuoted ==
  (LastOp = "set" /\ Contains(valid_chars, LastKey)) =>
    /\ IsOk(LastRes) => CharGrammar(LastArg)
    /\ ~CharGrammar(LastArg) =>
         LastRes = Err("ConfigParser", "could not parse char", LastArg)
    /\ (LastArg = v_quoted_space) =>
         IsOk(LastRes) /\ options[LastKey] = BO_Char(" ")
    /\ (LastArg = v_xx) => ~IsOk(LastRes)

---------------------------------------------------------------------------
(* C3. A set that succeeds, followed at once by the typed accessor that    *)
(* matches the declared type of the key, makes the accessor return the     *)
(* value the raw value denotes, whatever the store held; and that set      *)
(* leaves the values of all other keys as they were.                       *)
SetThenGet ==
  [][/\ (LastOp' = "set" /\ IsOk(LastRes')) =>
          /\ LastKey' \in SchemaKeys
          /\ LastKey' \in DOMAIN options'
          /\ Denotes(DeclaredType(LastKey'), LastArg', options'[LastKey'])
          /\ (DOMAIN options') \ {LastKey'} = (DOMAIN options) \ {LastKey'}
          /\ \A k \in (DOMAIN options) \ {LastKey'} : options'[k] = options[k]
     /\ (/\ LastOp = "set" /\ IsOk(LastRes)
         /\ LastOp' = Accessor(DeclaredType(LastKey))
         /\ LastKey' = LastKey) =>
          /\ IsOk(LastRes')
          /\ Denotes(DeclaredType(LastKey), LastArg,
                     [x \in {VariantOf(DeclaredType(LastKey))} |-> LastRes'.Ok])
    ]_vars

\* get_i32("numbering") has returned -3 right after set("numbering", "-3"),
\* on a store where an earlier set had given cover a value
SetThenGetWitness ==
  /\ LastOp = "get_i32" /\ LastKey = key_numbering /\ LastRes = Ok(-3)
  /\ writes = 2
  /\ key_cover \in DOMAIN options

---------------------------------------------------------------------------
\* the human-readable name of a declared type
HumanType(type) ==
  CASE type = lit_str  -> <<"s","t","r","i","n","g">>
    [] type = lit_bool -> <<"b","o","o","l","e","a","n">>
    [] type = lit_int  -> <<"i","n","t","e","g","e","r">>
    [] type = lit_char -> <<"c","h","a","r">>
    [] type = lit_path -> <<"p","a","t","h">>

\* the entries of the options in the text description pushed
OptionEntries(out) == SelectSeq(out, LAMBDA x : x[1] \in {"md", "plain"})

(* C8. For md true and md false, description(md) emits one entry for each  *)
(* option definition of the schema, in declaration order, so each key is   *)
(* listed once; the entry carries the human-readable name of the declared  *)
(* type and, as default, the literal default text of the schema or         *)
(* "not set" when there is none. It is the same on every store.            *)
DescriptionListsSchema ==
  LastOp = "description" =>
    LET md      == LastKey
        entries == OptionEntries(LastRes)
    IN  /\ Len(entries) = Len(OptionDefs)
        /\ \A i \in DOMAIN OptionDefs :
             LET e == OptionDefs[i]
             IN  /\ entries[i][1] = (IF md THEN "md" ELSE "plain")
                 /\ entries[i][2] = e.key[1]
                 /\ entries[i][3] = HumanType(e.option_type[1])
                 /\ entries[i][4] = (IF e.default_value = None
                                     THEN <<"n","o","t"," ","s","e","t">>
                                     ELSE e.default_value[1])
        /\ \A key \in SchemaKeys :
             Cardinality({i \in DOMAIN entries : entries[i][2] = key}) = 1
        /\ \E i \in DOMAIN entries :
             /\ entries[i][2] = key_cover
             /\ entries[i][3] = <<"p","a","t","h">>
             /\ entries[i][4] = <<"n","o","t"," ","s","e","t">>
        /\ \E i \in DOMAIN entries :
             /\ entries[i][2] = key_numbering
             /\ entries[i][3] = <<"i","n","t","e","g","e","r">>
             /\ entries[i][4] = <<"1">>

\* description(true) has been called on a store where numbering is no
\* longer its default and cover has a value
DescriptionWitness ==
  /\ LastOp = "description" /\ LastKey = TRUE
  /\ Len(LastRes) > Len(OptionDefs)
  /\ options[key_numbering] = BO_Int(2)
  /\ key_cover \in DOMAIN options

---------------------------------------------------------------------------
TypedAccessors ==
  {"get_str", "get_bool", "get_char", "get_i32", "get_path",
   "get_relative_path"}

\* the variant a typed accessor expects
Expected(op) ==
  CASE op = "get_str"  -> "String"
    [] op = "get_bool" -> "Bool"
    [] op = "get_char" -> "Char"
    [] op = "get_i32"  -> "Int"
    [] op \in {"get_path", "get_relative_path"} -> "Path"

\* the message of the type-mismatch error of a typed accessor
Mismatch(op) ==
  CASE op = "get_str"  -> "{:?} is not a string"
    [] op = "get_bool" -> "{:?} is not a bool"
    [] op = "get_char" -> "{:?} is not a char"
    [] op = "get_i32"  -> "{:?} is not an i32"
    [] op \in {"get_path", "get_relative_path"} -> "{:?} is not a path"

\* the key has a stored value of the variant the accessor expects
HasExpected(op, key) ==
  key \in DOMAIN options /\ Kind(options[key]) = Expected(op)

\* how a typed accessor fails: no stored value, or one of another kind,
\* which needs an accessor that does not match the declared type of the key
FailsAsDeclared(op, key, res) ==
  /\ key \notin DOMAIN options =>
       res = Err("InvalidOption", "option {} is not persent", key)
  /\ (key \in DOMAIN options /\ Kind(options[key]) # Expected(op)) =>
       /\ res = Err("BookOption", Mismatch(op), options[key])
       /\ Expected(op) # VariantOf(DeclaredType(key))

\* r joined with p by the rules of the platform: an absolute p stands alone,
\* otherwise p follows r, after a separator unless r is empty or ends in one
Joined(r, p) ==
  IF p # <<>> /\ p[1] = "/" THEN p
  ELSE IF r = <<>> \/ r[Len(r)] = "/" THEN r \o p
  ELSE r \o <<"/">> \o p

\* the path is valid UTF-8 text
ValidText(p) == \A i \in 1..Len(p) : p[i] # InvalidByte

(* C9 as stated. A typed accessor succeeds exactly when the key has a      *)
(* stored value of the kind it expects; it fails with "option not present" *)
(* when the key has no value and with a type mismatch when the value is of *)
(* another kind; no accessor changes the store.                            *)
AccessorByKindAlone ==
  [][LastOp' \in TypedAccessors =>
       /\ IsOk(LastRes') <=> HasExpected(LastOp', LastKey')
       /\ FailsAsDeclared(LastOp', LastKey', LastRes')
       /\ Store' = Store]_vars

(* C9 as amended. The same, except that get_path on a stored path succeeds *)
(* exactly when root joined with that path is valid UTF-8 text, and fails  *)
(* with the invalid UTF-8 error when it is not.                            *)
AccessorByKind ==
  [][LastOp' \in TypedAccessors =>
       /\ LastOp' # "get_path" =>
            (IsOk(LastRes') <=> HasExpected(LastOp', LastKey'))
       /\ LastOp' = "get_path" =>
            /\ IsOk(LastRes') <=>
                 /\ HasExpected(LastOp', LastKey')
                 /\ ValidText(Joined(root, options[LastKey'].Path))
            /\ (/\ HasExpected(LastOp', LastKey')
                /\ ~ValidText(Joined(root, options[LastKey'].Path))) =>
                 LastRes' = Err("BookOption",
                                "'{}''s path contains invalid UTF-8 code",
                                LastKey')
       /\ FailsAsDeclared(LastOp', LastKey', LastRes')
       /\ Store' = Store]_vars

\* get_bool("numbering") has failed with a type mismatch after two sets
AccessorByKindWitness ==
  /\ LastOp = "get_bool" /\ LastKey = key_numbering
  /\ LastRes = Err("BookOption", "{:?} is not a bool", BO_Int(2))
  /\ writes = 2
  /\ options[key_autoclean] = BO_Bool(FALSE)

---------------------------------------------------------------------------
\* the last call was a path accessor on a key that has a stored path
PathRead(op) ==
  /\ LastOp = op
  /\ LastKey \in DOMAIN options
  /\ "Path" \in DOMAIN options[LastKey]

\* what no path accessor and no assignment of root changes
PathCallsKeepValues ==
  /\ LastOp' \in {"get_path", "get_relative_path"} =>
       (options' = options /\ root' = root)
  /\ LastOp' = "root" => (options' = options /\ root' = LastArg')

(* C10 as stated. For a stored path p and any root r, get_path returns r   *)
(* joined with p (/books/mybook and img/c.png give                         *)
(* /books/mybook/img/c.png) and get_relative_path returns p unmodified;    *)
(* assigning root changes no stored value and the accessors change neither *)
(* the value nor root.                                                     *)
PathJoinsAnyRoot ==
  [][/\ PathRead("get_path")' =>
          LastRes' = Ok(Joined(root', options'[LastKey'].Path))
     /\ PathRead("get_relative_path")' =>
          LastRes' = Ok(options'[LastKey'].Path)
     /\ PathCallsKeepValues]_vars

(* C10 as amended. The same when r joined with p is valid UTF-8 text;      *)
(* when it is not, get_path fails with the invalid UTF-8 error.            *)
PathJoinsRoot ==
  [][/\ PathRead("get_path")' =>
          LET path == Joined(root', options'[LastKey'].Path)
          IN  /\ ValidText(path) => LastRes' = Ok(path)
              /\ ~ValidText(path) =>
                   LastRes' = Err("BookOption",
                                  "'{}''s path contains invalid UTF-8 code",
                                  LastKey')
              /\ (root' = r_mybook /\ options'[LastKey'].Path = v_img) =>
                   LastRes' = Ok(<<"/","b","o","o","k","s","/","m","y","b","o",
                                   "o","k","/","i","m","g","/","c",".","p","n",
                                   "g">>)
     /\ PathRead("get_relative_path")' =>
          LastRes' = Ok(options'[LastKey'].Path)
     /\ PathCallsKeepValues]_vars

\* get_path("cover") has returned the join of /books/mybook and img/c.png
PathJoinsRootWitness ==
  /\ LastOp = "get_path" /\ LastKey = key_cover
  /\ root = r_mybook
  /\ key_cover \in DOMAIN options
  /\ options[key_cover] = BO_Path(v_img)
  /\ IsOk(LastRes) /\ Len(LastRes.Ok) = Len(r_mybook) + 1 + Len(v_img)
====
